---- MODULE Spec2Model ----
(***************************************************************************)
(* Squad Up: the MainApp component of src/src/main.tsx as a state machine. *)
(* The backend (two tables and a change feed), the in-memory squad list,   *)
(* the load()s and writes in flight and the view state are the variables;  *)
(* every handler of MainApp is an action.                                  *)
(*                                                                         *)
(* Encodings.  A text is a sequence of one-character strings.  SQL null    *)
(* and JS undefined are the one-element sequences Null and Undefined,      *)
(* which no text equals.  A date "YYYY-MM-DD" is its day number, a time    *)
(* "HH:MM" the pair <<hh, mm>> and the empty time the empty sequence.  A   *)
(* stored timestamp (timestamptz) is a number of microseconds.             *)
(***************************************************************************)
EXTENDS Integers, Sequences, FiniteSets, TLC

VARIABLES
    squadsTable,    \* backend: rows of table squads
    membersTable,   \* backend: rows of table members
    nextSquadId,    \* backend: next id of a squad row (ids are never reused)
    nextMemberId,   \* backend: next id of a member row
    notes,          \* change feed: notifications not yet delivered, per table
    channel,        \* "subscribed" | "removed": the realtime channel of the effect
    squads,         \* useState squads: the in-memory list
    tab,            \* useState tab
    filters,        \* useState filters
    joinTarget,     \* useState joinTarget (NoTarget when null)
    editTarget,     \* useState editTarget (NoTarget when null)
    toast,          \* useState toast (NoToast when null)
    visible,        \* useMemo visible: the displayed list
    now,            \* the Date.now() that the last evaluation of visible read, in ms
    loads,          \* load() calls in flight, in the order they were started
    writes,         \* handler calls awaiting their backend write, in call order
    faults,         \* history: backend calls that failed so far
    issuedDeletes,  \* history: <<id, pin>> of every delete request issued
    pinOf,          \* history: the PIN each squad row was inserted with
    events,         \* history: the user's events so far
    toastTimer,     \* Toast: ms left on its timeout, and history: ms since the status was set
    form,           \* PostForm: the values of its inputs, and its errors
    posted,         \* history: the squad a caller passed to addSquad
    relay,          \* the email relay: its request, its environment and what it sent
    instants,       \* history: <<squads table, members table>> at the instants followed
    lateCommit      \* history: a load() has committed after the channel was removed

vars == <<squadsTable, membersTable, nextSquadId, nextMemberId, notes, channel,
          squads, tab, filters, joinTarget, editTarget, toast, visible, now, loads,
          writes, faults, issuedDeletes, pinOf, events, toastTimer, form, posted,
          relay, instants, lateCommit>>

backendVars == <<squadsTable, membersTable, nextSquadId, nextMemberId, notes, pinOf>>
viewVars == <<tab, filters, joinTarget, editTarget, toast>>

\* The web application: all but the email relay.
appVars == <<backendVars, viewVars, channel, squads, visible, now, loads, writes,
             faults, issuedDeletes, events, toastTimer, form, posted, instants,
             lateCommit>>

----------------------------------------------------------------------------
(* Bounds of the model *)

MaxSquads == 2      \* squad rows ever inserted
MaxMembers == 2     \* member rows ever inserted
MaxLoads == 2       \* load() calls in flight at once
MaxWrites == 1      \* handler calls awaiting their write at once
MaxNotes == 2       \* undelivered change notifications per table
MaxTicks == 1       \* ms that pass after the first reading of the clock
MaxEvents == 6      \* events of the user in one run
MaxFaults == 1      \* backend calls that fail in one run
MaxCapacity == 2    \* largest capacity a form submits
MaxShownMs == 6400  \* ms a status is followed for after it is set

(* Program constants *)

DayMs == 86400000
ToastMs == 3200
PhoneTail == 6
PinLength == 6
DefaultCapacity == 4

\* The milliseconds of a minute of a Date.
MinuteMs == 60000

\* The clock's first reading: a day after the instant of day 1, 00:00.
Start == 2 * DayMs

----------------------------------------------------------------------------
(* Values *)

Null == <<"NULL">>
Undefined == <<"undefined">>
NoTarget == [id |-> 0]
NoToast == [kind |-> "none", text |-> ""]

DISCIPLINES == <<"Sporting Clays", "Trap", "Skeet", "Five Stand", "Other">>
CONTACT_TYPES == <<"Email", "Phone", "Text", "Link">>

Range(s) == {s[i] : i \in DOMAIN s}

Max(a, b) == IF a >= b THEN a ELSE b

\* The sequences that list every element of the finite set S once.
Orderings(S) ==
    {s \in [1..Cardinality(S) -> S] : \A i, j \in 1..Cardinality(S) : s[i] = s[j] => i = j}

Remove(s, i) == SubSeq(s, 1, i - 1) \o SubSeq(s, i + 1, Len(s))

----------------------------------------------------------------------------
(* Pure functions of main.tsx *)

\* new Date(iso).getTime(): a timestamptz, in microseconds, read to the millisecond.
ParseTime(us) == us \div 1000

\* new Date(`${date}T${time || "00:00"}`).getTime(): the local instant, in ms, of a
\* date and a time (a zone of fixed offset, taken as 0).
When(date, time) ==
    LET t == IF time = <<>> THEN <<0, 0>> ELSE time
    IN  date * DayMs + (t[1] * 60 + t[2]) * MinuteMs

\* x ?? undefined, for a nullable column
OrUndefined(x) == IF x = Null THEN Undefined ELSE x

\* x ?? null, for an optional field
OrNull(x) == IF x = Undefined THEN Null ELSE x

\* x || "", for an optional text
OrEmpty(x) == IF x \in {Undefined, Null} THEN <<>> ELSE x

\* A mapper that passes the stored message on as it is: what C18_RoundTrip rules
\* out.
mapFromDBRaw(row) ==
    [id |-> row.id,
     title |-> row.title,
     leaderName |-> row.leader_name,
     date |-> row.date,
     time |-> row.time,
     location |-> row.location,
     discipline |-> row.discipline,
     capacity |-> row.capacity,
     message |-> row.message,
     contact |-> [type |-> row.contact_type, value |-> row.contact_value],
     leaderPin |-> row.leader_pin,
     createdAt |-> ParseTime(row.created_at)]

mapFromDB(row) ==
    [id |-> row.id,
     title |-> row.title,
     leaderName |-> row.leader_name,
     date |-> row.date,
     time |-> row.time,
     location |-> row.location,
     discipline |-> row.discipline,
     capacity |-> row.capacity,
     message |-> OrUndefined(row.message),
     contact |-> [type |-> row.contact_type, value |-> row.contact_value],
     leaderPin |-> row.leader_pin,
     createdAt |-> ParseTime(row.created_at)]

\* A comparator that orders by the instant descending: what C12_Sorted rules out.
byUpcomingDescending(a, b) == When(b.date, b.time) - When(a.date, a.time)

byUpcoming(a, b) == When(a.date, a.time) - When(b.date, b.time)

\* Array.prototype.sort with a comparator: a stable sort.
RECURSIVE InsertSorted(_, _)
InsertSorted(s, x) ==
    IF s = <<>> THEN <<x>>
    ELSE IF byUpcoming(s[Len(s)], x) <= 0 THEN Append(s, x)
    ELSE Append(InsertSorted(SubSeq(s, 1, Len(s) - 1), x), s[Len(s)])

RECURSIVE SortByUpcoming(_)
SortByUpcoming(s) ==
    IF s = <<>> THEN <<>>
    ELSE InsertSorted(SortByUpcoming(SubSeq(s, 1, Len(s) - 1)), s[Len(s)])

\* A comparison that keeps the case of the letters: what C11_Filters rules out.
toLowerCaseKeepingCase(t) == t

\* String.prototype.toLowerCase, on the letters the model's texts use.
LowerOf == [A |-> "a", B |-> "b", C |-> "c", L |-> "l"]

toLowerCase(t) ==
    [i \in 1..Len(t) |-> IF t[i] \in DOMAIN LowerOf THEN LowerOf[t[i]] ELSE t[i]]

\* String.prototype.includes
includes(hay, q) ==
    \E i \in 0..(Len(hay) - Len(q)) : SubSeq(hay, i + 1, i + Len(q)) = q

\* The filter with the threshold compared by <=: what C10_OnlyUpcoming rules out.
KeepBelowThreshold(s, f, nw) ==
    /\ ~(f.onlyUpcoming /\ When(s.date, s.time) <= nw - DayMs)
    /\ ~(f.discipline # "All" /\ s.discipline # f.discipline)
    /\ \/ f.query = <<>>
       \/ includes(toLowerCase(s.title \o <<" ">> \o s.location \o <<" ">>
                                \o OrEmpty(s.message) \o <<" ">> \o s.leaderName),
                   toLowerCase(f.query))

\* The filter callback of visible: whether squad s passes the filters f at time nw.
Keep(s, f, nw) ==
    /\ ~(f.onlyUpcoming /\ When(s.date, s.time) < nw - DayMs)
    /\ ~(f.discipline # "All" /\ s.discipline # f.discipline)
    /\ \/ f.query = <<>>
       \/ includes(toLowerCase(s.title \o <<" ">> \o s.location \o <<" ">>
                                \o OrEmpty(s.message) \o <<" ">> \o s.leaderName),
                   toLowerCase(f.query))

Filter(sq, f, nw) == SelectSeq(sq, LAMBDA s : Keep(s, f, nw))

\* useMemo visible: squads.filter(...).sort(byUpcoming), evaluated at time nw.
Visible(sq, f, nw) == SortByUpcoming(Filter(sq, f, nw))

\* The places left counted without the leader: what C8_Occupancy rules out.
LeftWithoutLeader(squad) == Max(0, squad.capacity - Len(squad.members))

\* The three values SquadCard derives, and the disabled attribute of its join button.
Left(squad) == Max(0, squad.capacity - (1 + Len(squad.members)))

SquadCard(squad) ==
    [used |-> 1 + Len(squad.members),
     left |-> Left(squad),
     full |-> Left(squad) = 0,
     joinDisabled |-> Left(squad) = 0]

----------------------------------------------------------------------------
(* The backend: the two tables, their queries and their change feed *)

SquadIds == {r.id : r \in squadsTable}

\* The ids of the squad rows that a delete has removed.
Gone == (1..(nextSquadId - 1)) \ SquadIds

MembersOf(id) == {m \in membersTable : m.squad_id = id}

\* The server's clock at its n-th insert: a timestamptz, in microseconds.
ServerStamp(n) == n * 1000000 + 500

NoData == [isNull |-> TRUE, data |-> <<>>]
Data(s) == [isNull |-> FALSE, data |-> s]

\* from("squads").select("*").order("date", {ascending: true}): the rows by date;
\* the order of rows of one date is the server's choice.
SelectSquads ==
    {s \in Orderings(squadsTable) : \A i, j \in DOMAIN s : i < j => s[i].date <= s[j].date}

\* from("members").select("*").in("squad_id", ids): no order is asked for, so the
\* order of the rows is the server's choice.
SelectMembers(ids) == Orderings({m \in membersTable : m.squad_id \in ids})

Notify(table, n) == [notes EXCEPT ![table] = @ + n]

\* insert into squads: the server assigns id and created_at.
InsertSquad(arg) ==
    /\ nextSquadId <= MaxSquads
    /\ notes.squads < MaxNotes
    /\ squadsTable' = squadsTable \cup
           {arg @@ [id |-> nextSquadId,
                    created_at |-> ServerStamp(nextSquadId + nextMemberId)]}
    /\ nextSquadId' = nextSquadId + 1
    /\ pinOf' = pinOf @@ (nextSquadId :> arg.leader_pin)
    /\ notes' = Notify("squads", 1)
    /\ UNCHANGED <<membersTable, nextMemberId>>

\* insert into members: squad_id is a foreign key, so the insert is refused when
\* the squad row is gone; the server assigns id and joined_at.
InsertMember(arg) ==
    IF arg.squad_id \in SquadIds
    THEN /\ nextMemberId <= MaxMembers
         /\ notes.members < MaxNotes
         /\ membersTable' = membersTable \cup
                {arg @@ [id |-> nextMemberId,
                         joined_at |-> ServerStamp(nextSquadId + nextMemberId)]}
         /\ nextMemberId' = nextMemberId + 1
         /\ notes' = Notify("members", 1)
         /\ UNCHANGED <<squadsTable, nextSquadId, pinOf>>
    ELSE UNCHANGED backendVars

\* delete from squads where id = arg.id: the member rows of the squad go with it.
DeleteSquad(arg) ==
    IF arg.id \in SquadIds
    THEN /\ notes.squads < MaxNotes
         /\ notes.members + Cardinality(MembersOf(arg.id)) <= MaxNotes
         /\ squadsTable' = {r \in squadsTable : r.id # arg.id}
         /\ membersTable' = membersTable \ MembersOf(arg.id)
         /\ notes' = [squads |-> notes.squads + 1,
                      members |-> notes.members + Cardinality(MembersOf(arg.id))]
         /\ UNCHANGED <<nextSquadId, nextMemberId, pinOf>>
    ELSE UNCHANGED backendVars

\* update squads set <the columns of arg.set> where id = arg.id
UpdateSquad(arg) ==
    IF arg.id \in SquadIds
    THEN /\ notes.squads < MaxNotes
         /\ squadsTable' =
                {IF r.id = arg.id THEN arg.set @@ r ELSE r : r \in squadsTable}
         /\ notes' = Notify("squads", 1)
         /\ UNCHANGED <<membersTable, nextSquadId, nextMemberId, pinOf>>
    ELSE UNCHANGED backendVars

----------------------------------------------------------------------------
(* Toast, src/src/main.tsx lines 1269-1273: useEffect(() => { const t =
   setTimeout(onClose, 3200); return () => clearTimeout(t); }, [onClose]) *)

NoTimer == [left |-> 0, shown |-> 0]

\* setToast({kind, text}): Toast renders with the new status and its effect sets
\* the timeout.
Emit == toastTimer' = [left |-> ToastMs, shown |-> 0]

\* MainApp renders again for another state than toast: it passes Toast a new
\* onClose, so the effect of a Toast that is shown clears its timeout and sets a
\* new one.
Render ==
    toastTimer' = IF toast = NoToast THEN NoTimer
                  ELSE [toastTimer EXCEPT !.left = ToastMs]

----------------------------------------------------------------------------
(* load(), src/src/main.tsx lines 256-288 *)

\* The render after setSquads or setFilters: useMemo evaluates visible again, on the
\* list sq and the filters f, and reads the clock, which has not run backwards.
Evaluate(sq, f) ==
    \E n \in now..(Start + MaxTicks) :
        /\ now' = n
        /\ visible' = Visible(sq, f, n)

\* A join that leaves out the squads without a member row: what C22_FullReplace
\* rules out.
MappedInnerJoin(rows, membersData) ==
    LET squadRows == IF rows.isNull THEN <<>> ELSE rows.data
        ms == IF membersData.isNull THEN <<>> ELSE membersData.data
        joined == SelectSeq(squadRows,
                            LAMBDA r : \E k \in DOMAIN ms : ms[k].squad_id = r.id)
        mine(key) == SelectSeq(ms, LAMBDA m : m.squad_id = key)
        bySquad(key) ==
            [k \in 1..Len(mine(key)) |->
                [name |-> mine(key)[k].name,
                 note |-> OrUndefined(mine(key)[k].note),
                 joinedAt |-> ParseTime(mine(key)[k].joined_at)]]
    IN  [k \in 1..Len(joined) |->
            mapFromDB(joined[k]) @@ [members |-> bySquad(joined[k].id)]]

\* A join that attaches every member row fetched to every squad: what
\* C25_MembersUnderTheirSquad rules out.
MappedUngrouped(rows, membersData) ==
    LET squadRows == IF rows.isNull THEN <<>> ELSE rows.data
        ms == IF membersData.isNull THEN <<>> ELSE membersData.data
        all == [k \in 1..Len(ms) |->
                   [name |-> ms[k].name,
                    note |-> OrUndefined(ms[k].note),
                    joinedAt |-> ParseTime(ms[k].joined_at)]]
    IN  [k \in 1..Len(squadRows) |-> mapFromDB(squadRows[k]) @@ [members |-> all]]

\* The constant mapped of load(): the rows fetched (none when data is null), each
\* with the member rows fetched for its id, in the order they arrived.
Mapped(rows, membersData) ==
    LET squadRows == IF rows.isNull THEN <<>> ELSE rows.data
        ms == IF membersData.isNull THEN <<>> ELSE membersData.data
        mine(key) == SelectSeq(ms, LAMBDA m : m.squad_id = key)
        bySquad(key) ==
            [k \in 1..Len(mine(key)) |->
                [name |-> mine(key)[k].name,
                 note |-> OrUndefined(mine(key)[k].note),
                 joinedAt |-> ParseTime(mine(key)[k].joined_at)]]
    IN  [k \in 1..Len(squadRows) |->
            mapFromDB(squadRows[k]) @@ [members |-> bySquad(squadRows[k].id)]]

\* A load() that patches the list, keeping the entries that the rows fetched lack:
\* what C9_LoadAfterDeleteAndFill rules out.
loadResultPatching(rows, membersData) ==
    SortByUpcoming(Mapped(rows, membersData) \o
        SelectSeq(squads, LAMBDA s : \A k \in DOMAIN rows.data : rows.data[k].id # s.id))

\* What load() passes to setSquads, from the results of its two selects.
loadResult(rows, membersData) == SortByUpcoming(Mapped(rows, membersData))

\* A call of load(): nothing is read yet.  gone, occ and late are history.  gone and
\* occ are set when the first select is answered: the squad ids deleted by then, and
\* the number of member rows of each squad then.  late is set when the second select
\* is answered: the squad ids deleted by then.
NewLoad ==
    [pc |-> "squads", rows |-> NoData, members |-> NoData,
     gone |-> {}, occ |-> <<>>, late |-> {}]

Occupancy == [id \in SquadIds |-> Cardinality(MembersOf(id))]

\* The first select is answered.
LoadReadSquads(i) ==
    /\ loads[i].pc = "squads"
    /\ \E s \in SelectSquads :
           loads' = [loads EXCEPT ![i].pc = "members", ![i].rows = Data(s),
                                  ![i].gone = Gone, ![i].occ = Occupancy]
    /\ UNCHANGED <<form, posted, relay, instants, lateCommit>>
    /\ UNCHANGED <<backendVars, viewVars, channel, squads, visible, now, toastTimer,
                   writes, faults, issuedDeletes, events>>

\* The first select fails: data is null.
LoadReadSquadsFails(i) ==
    /\ loads[i].pc = "squads"
    /\ faults < MaxFaults
    /\ faults' = faults + 1
    /\ loads' = [loads EXCEPT ![i].pc = "members", ![i].rows = NoData,
                              ![i].gone = Gone, ![i].occ = Occupancy]
    /\ UNCHANGED <<form, posted, relay, instants, lateCommit>>
    /\ UNCHANGED <<backendVars, viewVars, channel, squads, visible, now, toastTimer,
                   writes, issuedDeletes, events>>

\* The second select, for the ids of the rows fetched, is answered.
LoadReadMembers(i) ==
    /\ loads[i].pc = "members"
    /\ \E s \in SelectMembers({r.id : r \in Range(loads[i].rows.data)}) :
           loads' = [loads EXCEPT ![i].pc = "commit", ![i].members = Data(s),
                                  ![i].late = Gone]
    /\ UNCHANGED <<form, posted, relay, instants, lateCommit>>
    /\ UNCHANGED <<backendVars, viewVars, channel, squads, visible, now, toastTimer,
                   writes, faults, issuedDeletes, events>>

\* The second select fails: data is null.
LoadReadMembersFails(i) ==
    /\ loads[i].pc = "members"
    /\ faults < MaxFaults
    /\ faults' = faults + 1
    /\ loads' = [loads EXCEPT ![i].pc = "commit", ![i].members = NoData,
                              ![i].late = Gone]
    /\ UNCHANGED <<form, posted, relay, instants, lateCommit>>
    /\ UNCHANGED <<backendVars, viewVars, channel, squads, visible, now, toastTimer,
                   writes, issuedDeletes, events>>

\* A load() that commits only when no load() was started after it, and is dropped
\* otherwise: what C21_LastToCompleteWins rules out.
LoadCommitNewest(i) ==
    /\ loads[i].pc = "commit"
    /\ loads' = Remove(loads, i)
    /\ IF i = Len(loads)
       THEN /\ squads' = loadResult(loads[i].rows, loads[i].members)
            /\ Evaluate(squads', filters)
            /\ Render
       ELSE UNCHANGED <<squads, visible, now, toastTimer>>
    /\ lateCommit' = (lateCommit \/ channel = "removed")
    /\ UNCHANGED <<form, posted, relay, instants>>
    /\ UNCHANGED <<backendVars, viewVars, channel, writes, faults, issuedDeletes, events>>

\* A load() that tests a flag of the mounted component before it commits, and is
\* dropped after the cleanup: what C23_CommitsAfterTeardown rules out.
LoadCommitWhileMounted(i) ==
    /\ loads[i].pc = "commit"
    /\ loads' = Remove(loads, i)
    /\ IF channel = "subscribed"
       THEN /\ squads' = loadResult(loads[i].rows, loads[i].members)
            /\ Evaluate(squads', filters)
            /\ Render
       ELSE UNCHANGED <<squads, visible, now, toastTimer>>
    /\ UNCHANGED <<form, posted, relay, instants, lateCommit>>
    /\ UNCHANGED <<backendVars, viewVars, channel, writes, faults, issuedDeletes, events>>

\* setSquads(mapped.sort(byUpcoming)), and the render that follows: visible is
\* evaluated again, reading the clock.
LoadCommit(i) ==
    /\ loads[i].pc = "commit"
    /\ squads' = loadResult(loads[i].rows, loads[i].members)
    /\ Evaluate(squads', filters)
    /\ loads' = Remove(loads, i)
    /\ Render
    /\ lateCommit' = (lateCommit \/ channel = "removed")
    /\ UNCHANGED <<form, posted, relay, instants>>
    /\ UNCHANGED <<backendVars, viewVars, channel, writes, faults, issuedDeletes, events>>

----------------------------------------------------------------------------
(* The realtime channel, lines 293-310 *)

\* The two .on("postgres_changes", {event: "*", table}, () => load()) handlers.
Handlers == {[table |-> "squads"], [table |-> "members"]}

\* A channel that calls both handlers for a change of either table: what
\* C4_OneLoadPerNotification rules out.
CallbacksOfEveryTable(table) ==
    IF channel = "subscribed" THEN Handlers ELSE {}

\* A channel that still calls its handlers once removed: what C5_NoLoadAfterTeardown
\* rules out.
CallbacksAfterRemoval(table) == {h \in Handlers : h.table = table}

\* The handlers the channel calls for a change of `table`: none once removed.
Callbacks(table) ==
    IF channel = "subscribed" THEN {h \in Handlers : h.table = table} ELSE {}

\* A change notification of `table` arrives; each handler called starts a load().
Deliver(table) ==
    /\ notes[table] > 0
    /\ Len(loads) + Cardinality(Callbacks(table)) <= MaxLoads
    /\ notes' = [notes EXCEPT ![table] = @ - 1]
    /\ loads' = loads \o [k \in 1..Cardinality(Callbacks(table)) |-> NewLoad]
    /\ UNCHANGED <<form, posted, relay, instants, lateCommit>>
    /\ UNCHANGED <<squadsTable, membersTable, nextSquadId, nextMemberId, pinOf,
                   viewVars, channel, squads, visible, now, toastTimer, writes, faults,
                   issuedDeletes, events>>

\* The cleanup of the effect: supabase.removeChannel(ch), when MainApp unmounts.
Unmount ==
    /\ channel = "subscribed"
    /\ channel' = "removed"
    /\ UNCHANGED <<form, posted, relay, instants, lateCommit>>
    /\ UNCHANGED <<backendVars, viewVars, squads, visible, now, toastTimer, loads,
                   writes, faults, issuedDeletes, events>>

----------------------------------------------------------------------------
(* Inputs of the model: what the user types and picks *)

Capacities == 1..MaxCapacity

\* A PIN of six equal digits.
Pin(c) == [i \in 1..PinLength |-> c]

\* What PostForm.submit passes to onSubmit for two forms that validate.
DraftA ==
    [title |-> <<"C", "l">>, leaderName |-> <<"a">>, date |-> 1, time |-> <<0, 0>>,
     location |-> <<"b">>, discipline |-> "Trap", capacity |-> 2, message |-> <<>>,
     contact |-> [type |-> "Email", value |-> <<"a", "@", "b", ".", "c">>],
     leaderPin |-> Pin("1")]

DraftB ==
    [title |-> <<"b">>, leaderName |-> <<"a">>, date |-> 3, time |-> <<9, 30>>,
     location |-> <<"c">>, discipline |-> "Skeet", capacity |-> 1, message |-> <<"l">>,
     contact |-> [type |-> "Link", value |-> <<"c">>],
     leaderPin |-> Pin("0")]

Drafts == {DraftA, DraftB}

PinInputs == {Pin("1"), Pin("0")}
MemberNames == {<<"B">>}
Queries == {<<>>, <<"c", "l">>}
DisciplineFilters == {"All", "Trap"}

\* (await supabase.auth.getUser()).data.user: MainApp renders for a signed-in user.
SessionUser == [id |-> <<"u">>]

----------------------------------------------------------------------------
(* The handlers of MainApp, lines 316-400 *)

\* squads.find((x) => x.id === id): the first match, NoTarget when there is none.
find(id) ==
    LET at == {i \in DOMAIN squads : squads[i].id = id}
    IN  IF at = {} THEN NoTarget
        ELSE squads[CHOOSE i \in at : \A j \in at : i <= j]

Status(kind, text) == [kind |-> kind, text |-> text]

\* A handler call that awaits its backend write.  ok is history: whether the write
\* changed the backend (a refused or failed write, or one that matches no row, did
\* not).
Write(op, arg) == [op |-> op, arg |-> arg, done |-> FALSE, ok |-> TRUE]

\* The row addSquad inserts for a squad.
toRow(data) ==
    [title |-> data.title,
     leader_name |-> data.leaderName,
     date |-> data.date,
     time |-> data.time,
     location |-> data.location,
     discipline |-> data.discipline,
     capacity |-> data.capacity,
     message |-> OrNull(data.message),
     contact_type |-> data.contact.type,
     contact_value |-> data.contact.value,
     leader_pin |-> data.leaderPin,
     created_by |-> SessionUser.id]

addSquad(data) ==
    /\ writes' = Append(writes, Write("insertSquad", toRow(data)))
    /\ UNCHANGED <<backendVars, viewVars, channel, squads, visible, now, toastTimer,
                   loads, faults, issuedDeletes>>

joinSquad(id, member) ==
    /\ writes' = Append(writes, Write("insertMember",
           [squad_id |-> id, name |-> member.name, note |-> OrNull(member.note)]))
    /\ UNCHANGED <<backendVars, viewVars, channel, squads, visible, now, toastTimer,
                   loads, faults, issuedDeletes>>

\* deleteSquad without the comparison of the PIN: what C1_PinGate rules out.
deleteSquadCheckAnyPin(id, pin) ==
    IF find(id) = NoTarget THEN [go |-> FALSE, toast |-> NoToast]
    ELSE [go |-> TRUE, toast |-> NoToast]

\* The part of deleteSquad before its await: whether the delete is issued, and the
\* status set (NoToast: setToast is not called).
deleteSquadCheck(id, pin) ==
    LET s == find(id)
    IN  IF s = NoTarget THEN [go |-> FALSE, toast |-> NoToast]
        ELSE IF pin # s.leaderPin
             THEN [go |-> FALSE, toast |-> Status("error", "PIN is incorrect")]
        ELSE [go |-> TRUE, toast |-> NoToast]

deleteSquad(id, pin) ==
    LET c == deleteSquadCheck(id, pin)
    IN  /\ writes' = IF c.go THEN Append(writes, Write("deleteSquad", [id |-> id]))
                     ELSE writes
        /\ issuedDeletes' = IF c.go THEN issuedDeletes \cup {<<id, pin>>}
                            ELSE issuedDeletes
        /\ toast' = IF c.toast # NoToast THEN c.toast ELSE toast
        /\ IF c.toast # NoToast THEN Emit ELSE UNCHANGED toastTimer
        /\ UNCHANGED <<backendVars, tab, filters, joinTarget, editTarget, channel,
                       squads, visible, now, loads, faults>>

\* startEdit without the comparison of the PIN: what C2_SameCheckInList rules out.
startEditCheckAnyPin(id, pin) ==
    IF find(id) = NoTarget THEN [go |-> FALSE, toast |-> Status("error", "Not found")]
    ELSE [go |-> TRUE, toast |-> NoToast]

\* startEdit: whether the edit flow opens, and the status set.
startEditCheck(id, pin) ==
    LET s == find(id)
    IN  IF s = NoTarget THEN [go |-> FALSE, toast |-> Status("error", "Not found")]
        ELSE IF pin # s.leaderPin
             THEN [go |-> FALSE, toast |-> Status("error", "PIN is incorrect")]
        ELSE [go |-> TRUE, toast |-> NoToast]

startEdit(id, pin) ==
    LET c == startEditCheck(id, pin)
    IN  /\ editTarget' = IF c.go THEN find(id) ELSE editTarget
        /\ toast' = IF c.toast # NoToast THEN c.toast ELSE toast
        /\ IF c.toast # NoToast THEN Emit ELSE Render
        /\ UNCHANGED <<backendVars, tab, filters, joinTarget, channel, squads,
                       visible, now, loads, writes, faults, issuedDeletes>>

\* saveEdit spreading the whole squad into the update, creation time included: what
\* C13_SaveEditColumns rules out.
saveEditWholeSquad(updated) ==
    /\ writes' = Append(writes, Write("updateSquad",
           [id |-> updated.id,
            set |-> [title |-> updated.title,
                     leader_name |-> updated.leaderName,
                     date |-> updated.date,
                     time |-> updated.time,
                     location |-> updated.location,
                     discipline |-> updated.discipline,
                     capacity |-> updated.capacity,
                     message |-> OrNull(updated.message),
                     contact_type |-> updated.contact.type,
                     contact_value |-> updated.contact.value,
                     leader_pin |-> updated.leaderPin,
                     created_at |-> updated.createdAt]]))
    /\ UNCHANGED <<backendVars, viewVars, channel, squads, visible, now, toastTimer,
                   loads, faults, issuedDeletes>>

\* saveEdit writing a PIN of its own in place of the squad's: what C24_PinNeverChanges
\* rules out.
saveEditOtherPin(updated) ==
    /\ writes' = Append(writes, Write("updateSquad",
           [id |-> updated.id,
            set |-> [title |-> updated.title,
                     leader_name |-> updated.leaderName,
                     date |-> updated.date,
                     time |-> updated.time,
                     location |-> updated.location,
                     discipline |-> updated.discipline,
                     capacity |-> updated.capacity,
                     message |-> OrNull(updated.message),
                     contact_type |-> updated.contact.type,
                     contact_value |-> updated.contact.value,
                     leader_pin |-> Pin("0")]]))
    /\ UNCHANGED <<backendVars, viewVars, channel, squads, visible, now, toastTimer,
                   loads, faults, issuedDeletes>>

saveEdit(updated) ==
    /\ writes' = Append(writes, Write("updateSquad",
           [id |-> updated.id,
            set |-> [title |-> updated.title,
                     leader_name |-> updated.leaderName,
                     date |-> updated.date,
                     time |-> updated.time,
                     location |-> updated.location,
                     discipline |-> updated.discipline,
                     capacity |-> updated.capacity,
                     message |-> OrNull(updated.message),
                     contact_type |-> updated.contact.type,
                     contact_value |-> updated.contact.value,
                     leader_pin |-> updated.leaderPin]]))
    /\ UNCHANGED <<backendVars, viewVars, channel, squads, visible, now, toastTimer,
                   loads, faults, issuedDeletes>>

\* The backend carries out the write of call i.
Answer(i) ==
    /\ ~writes[i].done
    /\ CASE writes[i].op = "insertSquad" -> InsertSquad(writes[i].arg)
         [] writes[i].op = "insertMember" -> InsertMember(writes[i].arg)
         [] writes[i].op = "deleteSquad" -> DeleteSquad(writes[i].arg)
         [] writes[i].op = "updateSquad" -> UpdateSquad(writes[i].arg)
    /\ writes' = [writes EXCEPT ![i].done = TRUE,
                                ![i].ok = (<<squadsTable, membersTable>>' #
                                           <<squadsTable, membersTable>>)]
    /\ UNCHANGED <<form, posted, relay, lateCommit>>
    /\ UNCHANGED <<viewVars, channel, squads, visible, now, toastTimer, loads, faults,
                   issuedDeletes, events>>

Apply(i) == Answer(i) /\ UNCHANGED instants

\* The same, with the instant after the write recorded.
ApplyAtInstant(i) ==
    /\ Answer(i)
    /\ instants' = instants \cup {<<squadsTable', membersTable'>>}

\* The write of call i fails (the network, the store): nothing is written.
ApplyFails(i) ==
    /\ ~writes[i].done
    /\ faults < MaxFaults
    /\ faults' = faults + 1
    /\ writes' = [writes EXCEPT ![i].done = TRUE, ![i].ok = FALSE]
    /\ UNCHANGED <<form, posted, relay, instants, lateCommit>>
    /\ UNCHANGED <<backendVars, viewVars, channel, squads, visible, now, toastTimer,
                   loads, issuedDeletes, events>>

\* A handler that reads the result of its write and reports a failure: what
\* C14_SuccessWhatever rules out.
ContinuationOnResult(w) ==
    IF w.ok
    THEN CASE w.op = "insertSquad" ->
                 /\ tab' = "browse"
                 /\ toast' = [kind |-> "success", text |-> "Squad posted"]
                 /\ UNCHANGED <<joinTarget, editTarget>>
           [] w.op = "insertMember" ->
                 /\ joinTarget' = NoTarget
                 /\ toast' = [kind |-> "success", text |-> "Joined this squad"]
                 /\ UNCHANGED <<tab, editTarget>>
           [] w.op = "deleteSquad" ->
                 /\ toast' = [kind |-> "success", text |-> "Squad deleted"]
                 /\ UNCHANGED <<tab, joinTarget, editTarget>>
           [] w.op = "updateSquad" ->
                 /\ editTarget' = NoTarget
                 /\ toast' = [kind |-> "success", text |-> "Squad updated"]
                 /\ UNCHANGED <<tab, joinTarget>>
    ELSE /\ toast' = [kind |-> "error", text |-> "Something went wrong"]
         /\ UNCHANGED <<tab, joinTarget, editTarget>>

\* What a handler sets after its await: the result of the write is not read.
Continuation(w) ==
    CASE w.op = "insertSquad" ->
            /\ tab' = "browse"
            /\ toast' = Status("success", "Squad posted")
            /\ UNCHANGED <<joinTarget, editTarget>>
      [] w.op = "insertMember" ->
            /\ joinTarget' = NoTarget
            /\ toast' = Status("success", "Joined this squad")
            /\ UNCHANGED <<tab, editTarget>>
      [] w.op = "deleteSquad" ->
            /\ toast' = Status("success", "Squad deleted")
            /\ UNCHANGED <<tab, joinTarget, editTarget>>
      [] w.op = "updateSquad" ->
            /\ editTarget' = NoTarget
            /\ toast' = Status("success", "Squad updated")
            /\ UNCHANGED <<tab, joinTarget>>

\* A handler that patches the list after its write, dropping the squad it deleted:
\* what C6_OnlyLoadWritesList rules out.
CompleteAndPatch(i) ==
    /\ writes[i].done
    /\ writes' = Remove(writes, i)
    /\ Continuation(writes[i])
    /\ squads' = IF writes[i].op = "deleteSquad"
                 THEN SelectSeq(squads, LAMBDA s : s.id # writes[i].arg.id)
                 ELSE squads
    /\ Emit
    /\ UNCHANGED <<form, posted, relay, instants, lateCommit>>
    /\ UNCHANGED <<backendVars, filters, channel, visible, now,
                   loads, faults, issuedDeletes, events>>

\* The rest of the handler of call i runs, once its write is answered.
Complete(i) ==
    /\ writes[i].done
    /\ writes' = Remove(writes, i)
    /\ Continuation(writes[i])
    /\ Emit
    /\ UNCHANGED <<form, posted, relay, instants, lateCommit>>
    /\ UNCHANGED <<backendVars, filters, channel, squads, visible, now,
                   loads, faults, issuedDeletes, events>>

----------------------------------------------------------------------------
(* The user's events, bound to the handlers as MainApp renders them *)

Mounted == channel = "subscribed"

\* An event of the user, on the mounted component.
UserEvent ==
    /\ Mounted /\ events < MaxEvents
    /\ events' = events + 1
    /\ UNCHANGED <<form, posted, relay, instants, lateCommit>>

\* An event of the user on PostForm.
UserEventOnForm ==
    /\ Mounted /\ events < MaxEvents
    /\ events' = events + 1
    /\ UNCHANGED <<posted, relay, instants, lateCommit>>

\* setFilters, and the render that follows: visible is evaluated again.
SetFilters(f) ==
    /\ UserEvent /\ tab = "browse"
    /\ f # filters
    /\ filters' = f
    /\ Evaluate(squads, f)
    /\ Render
    /\ UNCHANGED <<backendVars, tab, joinTarget, editTarget, toast, channel, squads,
                   loads, writes, faults, issuedDeletes>>

\* Filters: the search box, the discipline select and the "Only upcoming" checkbox.
ChangeQuery == \E q \in Queries : SetFilters([filters EXCEPT !.query = q])

ChangeDiscipline ==
    \E d \in DisciplineFilters : SetFilters([filters EXCEPT !.discipline = d])

ChangeOnlyUpcoming == SetFilters([filters EXCEPT !.onlyUpcoming = ~@])

\* The Browse and Post buttons of the header.
ClickTab ==
    /\ UserEvent
    /\ \E t \in {"browse", "post"} : t # tab /\ tab' = t
    /\ Render
    /\ UNCHANGED <<backendVars, filters, joinTarget, editTarget, toast, channel,
                   squads, visible, now, loads, writes, faults, issuedDeletes>>

\* PostForm.submit with a form that validates.
SubmitPost ==
    /\ UserEvent /\ tab = "post"
    /\ Len(writes) < MaxWrites
    /\ nextSquadId + Cardinality({i \in DOMAIN writes :
           writes[i].op = "insertSquad" /\ ~writes[i].done}) <= MaxSquads
    /\ \E d \in Drafts : addSquad(d)

\* The join button of a card: disabled when the squad is full.
ClickJoin ==
    /\ UserEvent /\ tab = "browse"
    /\ \E i \in DOMAIN visible :
           /\ ~SquadCard(visible[i]).joinDisabled
           /\ joinTarget' = visible[i]
    /\ Render
    /\ UNCHANGED <<backendVars, tab, filters, editTarget, toast, channel, squads,
                   visible, now, loads, writes, faults, issuedDeletes>>

\* JoinModal: Cancel or the cross.
CloseJoin ==
    /\ UserEvent /\ joinTarget # NoTarget
    /\ joinTarget' = NoTarget
    /\ Render
    /\ UNCHANGED <<backendVars, tab, filters, editTarget, toast, channel, squads,
                   visible, now, loads, writes, faults, issuedDeletes>>

\* JoinModal.submit with a name: onJoin(name.trim(), note.trim()).
SubmitJoin ==
    /\ UserEvent /\ joinTarget # NoTarget
    /\ Len(writes) < MaxWrites
    /\ nextMemberId + Cardinality({i \in DOMAIN writes :
           writes[i].op = "insertMember" /\ ~writes[i].done}) <= MaxMembers
    /\ \E name \in MemberNames : joinSquad(joinTarget.id, [name |-> name, note |-> <<>>])

\* PinAction "Delete" of a card, confirmed with a PIN.
ClickDelete ==
    /\ UserEvent /\ tab = "browse"
    /\ Len(writes) < MaxWrites
    /\ \E i \in DOMAIN visible, pin \in PinInputs : deleteSquad(visible[i].id, pin)

\* PinAction "Edit" of a card, confirmed with a PIN.
ClickEdit ==
    /\ UserEvent /\ tab = "browse"
    /\ \E i \in DOMAIN visible, pin \in PinInputs : startEdit(visible[i].id, pin)

\* EditModal: Cancel or the cross.
CloseEdit ==
    /\ UserEvent /\ editTarget # NoTarget
    /\ editTarget' = NoTarget
    /\ Render
    /\ UNCHANGED <<backendVars, tab, filters, joinTarget, toast, channel, squads,
                   visible, now, loads, writes, faults, issuedDeletes>>

\* String.prototype.replace(/[^+\d]/g, "")
sanitizePhone(p) ==
    SelectSeq(p, LAMBDA c : c \in {"+", "0", "1", "2", "3", "4", "5", "6", "7", "8", "9"})

\* EditModal.submit: the form holds the squad's values, and the user sets capacity.
SubmitEdit ==
    /\ UserEvent /\ editTarget # NoTarget
    /\ Len(writes) < MaxWrites
    /\ \E cap \in Capacities :
           saveEdit([id |-> editTarget.id,
                     members |-> editTarget.members,
                     createdAt |-> editTarget.createdAt,
                     leaderPin |-> editTarget.leaderPin,
                     title |-> editTarget.title,
                     leaderName |-> editTarget.leaderName,
                     date |-> editTarget.date,
                     time |-> editTarget.time,
                     location |-> editTarget.location,
                     discipline |-> editTarget.discipline,
                     capacity |-> cap,
                     message |-> IF OrEmpty(editTarget.message) = <<>> THEN Undefined
                                 ELSE editTarget.message,
                     contact |->
                         [type |-> editTarget.contact.type,
                          value |-> IF editTarget.contact.type \in {"Phone", "Text"}
                                    THEN sanitizePhone(editTarget.contact.value)
                                    ELSE editTarget.contact.value]])

----------------------------------------------------------------------------
(* PostForm, src/src/main.tsx lines 565-636 *)

Whitespace == {" ", "\t"}
Digits == {"0", "1", "2", "3", "4", "5", "6", "7", "8", "9"}

RECURSIVE trimStart(_)
trimStart(t) ==
    IF t # <<>> /\ Head(t) \in Whitespace THEN trimStart(Tail(t)) ELSE t

RECURSIVE trimEnd(_)
trimEnd(t) ==
    IF t # <<>> /\ t[Len(t)] \in Whitespace THEN trimEnd(SubSeq(t, 1, Len(t) - 1))
    ELSE t

\* String.prototype.trim()
trim(t) == trimEnd(trimStart(t))

\* /^[^\s@]+@[^\s@]+\.[^\s@]+$/.test(t): an "@" at i and a "." at j, with one
\* character or more before, between and after them, none of them a space or "@".
IsEmail(t) ==
    \E i, j \in DOMAIN t :
        /\ 1 < i /\ i + 1 < j /\ j < Len(t)
        /\ t[i] = "@" /\ t[j] = "."
        /\ \A k \in DOMAIN t \ {i} : t[k] \notin Whitespace \cup {"@"}

\* /^\+?\d[\d\s().-]{6,}$/.test(t)
IsPhone(t) ==
    LET u == IF t # <<>> /\ Head(t) = "+" THEN Tail(t) ELSE t
    IN  /\ u # <<>> /\ Head(u) \in Digits
        /\ Len(u) - 1 >= PhoneTail
        /\ \A k \in 2..Len(u) : u[k] \in Digits \cup Whitespace \cup {"(", ")", ".", "-"}

\* A PIN test that accepts six digits followed by more: what C17_Validates rules
\* out.
IsPinPrefix(t) == Len(t) >= PinLength /\ \A k \in 1..PinLength : t[k] \in Digits

\* /^\d{6}$/.test(t)
IsPin(t) == Len(t) = PinLength /\ \A k \in DOMAIN t : t[k] \in Digits

NoErrors == [k \in {} |-> ""]

\* The state of PostForm after its first render, and after a submit that passed.
\* The value of the date input is <<>> when empty and <<day>> otherwise; of the
\* time input, <<>> or <<hours, minutes>>.
EmptyForm ==
    [title |-> <<>>, leaderName |-> <<>>, date |-> <<>>, time |-> <<>>,
     location |-> <<>>, discipline |-> DISCIPLINES[1], capacity |-> DefaultCapacity,
     message |-> <<>>, contactType |-> "Email", contactValue |-> <<>>,
     leaderPin |-> <<>>, errors |-> NoErrors]

\* if (failed) e[key] = text
Flag(e, failed, key, text) == IF failed THEN (key :> text) @@ e ELSE e

\* validate(): the errors object it builds and passes to setErrors.
validate(f) ==
    LET e1 == Flag(NoErrors, trim(f.title) = <<>>, "title", "Title is required")
        e2 == Flag(e1, trim(f.leaderName) = <<>>, "leaderName", "Leader name is required")
        e3 == Flag(e2, f.date = <<>>, "date", "Date is required")
        e4 == Flag(e3, f.time = <<>>, "time", "Time is required")
        e5 == Flag(e4, trim(f.location) = <<>>, "location", "Location is required")
        e6 == Flag(e5, f.capacity = 0 \/ f.capacity < 1, "capacity",
                   "Capacity must be at least 1")
        e7 == Flag(e6, trim(f.contactValue) = <<>>, "contact",
                   "Contact detail is required")
        e8 == Flag(e7, f.contactType = "Email" /\ ~IsEmail(trim(f.contactValue)),
                   "contact", "Enter a valid email")
        e9 == Flag(e8, /\ f.contactType \in {"Phone", "Text"}
                       /\ ~IsPhone(trim(f.contactValue)),
                   "contact", "Enter a valid phone number")
    IN  IF trim(f.leaderPin) = <<>> THEN Flag(e9, TRUE, "leaderPin", "PIN is required")
        ELSE Flag(e9, ~IsPin(trim(f.leaderPin)), "leaderPin", "PIN must be 6 digits")

\* The object submit passes to onSubmit.
Draft(f) ==
    [title |-> trim(f.title),
     leaderName |-> trim(f.leaderName),
     date |-> f.date[1],
     time |-> f.time,
     location |-> trim(f.location),
     discipline |-> f.discipline,
     capacity |-> f.capacity,
     message |-> trim(f.message),
     contact |-> [type |-> f.contactType,
                  value |-> IF f.contactType \in {"Phone", "Text"}
                            THEN sanitizePhone(f.contactValue)
                            ELSE trim(f.contactValue)],
     leaderPin |-> trim(f.leaderPin)]

\* submit: validate() sets the errors; when there is none, onSubmit (addSquad) is
\* called and the inputs are reset.
submit ==
    LET e == validate(form)
    IN  IF DOMAIN e # {}
        THEN /\ form' = [form EXCEPT !.errors = e]
             /\ UNCHANGED <<backendVars, viewVars, channel, squads, visible, now,
                            toastTimer, loads, writes, faults, issuedDeletes>>
        ELSE /\ addSquad(Draft(form))
             /\ form' = [EmptyForm EXCEPT !.errors = e]

\* What the user has typed into the form.
Texts == {<<>>, <<" ">>, <<"b">>}
ContactInputs ==
    {<<>>, <<"a", "@", "b", ".", "c">>, <<"a", "@", "b">>,
     <<"+", "1", " ", "5", "5", "5", "-", "0", "1", "0">>, <<"5", "5", "5">>}
PinTexts ==
    {<<>>, Pin("1"), <<" ">> \o Pin("0") \o <<" ">>, <<"1", "2", "a", "4", "5", "6">>,
     <<"1", "2", "3", "4", "5">>, Pin("1") \o <<"1">>}

FormInputs ==
    {[EmptyForm EXCEPT !.title = t, !.leaderName = <<"a">>, !.date = d[1],
                       !.time = d[2], !.location = l, !.capacity = c,
                       !.contactType = CONTACT_TYPES[k], !.contactValue = v,
                       !.leaderPin = p] :
        t \in Texts, l \in {<<>>, <<"c">>}, d \in {<<<<>>, <<>>>>, <<<<1>>, <<9, 30>>>>,
                                                  <<<<3>>, <<>>>>, <<<<>>, <<0, 0>>>>},
        c \in {0 - 1, 0, 1, MaxCapacity}, k \in DOMAIN CONTACT_TYPES,
        v \in ContactInputs, p \in PinTexts}

\* The user empties the leader name input.
ClearLeaderName ==
    /\ UserEventOnForm /\ tab = "post"
    /\ form.leaderName # <<>>
    /\ form' = [form EXCEPT !.leaderName = <<>>]
    /\ UNCHANGED <<backendVars, viewVars, channel, squads, visible, now, toastTimer,
                   loads, writes, faults, issuedDeletes>>

\* The Post Squad button of the form.
SubmitForm ==
    /\ UserEventOnForm /\ tab = "post"
    /\ Len(writes) < MaxWrites
    /\ nextSquadId <= MaxSquads
    /\ submit

\* Toast's onClose from its cross (and, in the specifications that do not follow
\* the milliseconds, from its timeout).
CloseToast ==
    /\ UserEvent /\ toast # NoToast
    /\ toast' = NoToast
    /\ toastTimer' = NoTimer
    /\ UNCHANGED <<backendVars, tab, filters, joinTarget, editTarget, channel, squads,
                   visible, now, loads, writes, faults, issuedDeletes>>

\* The steps of time followed while a status is shown.
TickMs == {ToastMs \div 2, ToastMs}

\* d ms pass with a status shown; time does not pass a timeout that is due.
Tick(d) ==
    /\ Mounted /\ toast # NoToast
    /\ d <= toastTimer.left
    /\ toastTimer.shown + d <= MaxShownMs
    /\ toastTimer' = [left |-> toastTimer.left - d, shown |-> toastTimer.shown + d]
    /\ UNCHANGED <<form, posted, relay, instants, lateCommit>>
    /\ UNCHANGED <<backendVars, viewVars, channel, squads, visible, now, loads, writes,
                   faults, issuedDeletes, events>>

\* The timeout of Toast fires: onClose(), which is setToast(null).
ToastTimeout ==
    /\ Mounted /\ toast # NoToast
    /\ toastTimer.left = 0
    /\ toast' = NoToast
    /\ toastTimer' = NoTimer
    /\ UNCHANGED <<form, posted, relay, instants, lateCommit>>
    /\ UNCHANGED <<backendVars, tab, filters, joinTarget, editTarget, channel, squads,
                   visible, now, loads, writes, faults, issuedDeletes, events>>

----------------------------------------------------------------------------
(* The email relay, src/api/send-notification.js *)

\* A request without a body, and the fields of a body.
NoBody == [absent |-> TRUE]
Body(email, subject, message) == [email |-> email, subject |-> subject, message |-> message]

\* const { email, subject, message } = req.body || {}
Destructure(body) ==
    IF "absent" \in DOMAIN body THEN Body(Undefined, Undefined, Undefined) ELSE body

\* !x, for a text that may be missing
Falsy(x) == x \in {Undefined, Null, <<>>}

\* The relay before any request.  History: whether the call of the provider threw
\* (threw), and what it answered (answer).
NoRequest ==
    [pc |-> "idle", method |-> "GET", body |-> NoBody, apiKey |-> Undefined,
     responses |-> <<>>, fetches |-> <<>>, threw |-> FALSE, answer |-> <<>>]

Address == <<"a", "@", "b", ".", "c">>

\* The requests the relay is called with, and process.env.RESEND_API_KEY.
Requests ==
    {[NoRequest EXCEPT !.pc = "called", !.method = m, !.body = b, !.apiKey = k] :
        m \in {"POST", "GET", "PUT"},
        b \in {NoBody} \cup {Body(e, u, t) : e \in {Undefined, <<>>, Address},
                                             u \in {Undefined, <<"s">>},
                                             t \in {Undefined, <<"t">>}},
        k \in {Undefined, <<>>, <<"k">>}}

\* What the provider answers.
ProviderJson == {[id |-> "e1"], [id |-> "e2"]}

\* res.status(status).json(body)
Respond(status, body) ==
    relay' = [relay EXCEPT !.pc = "done",
                           !.responses = Append(@, [status |-> status, body |-> body])]

\* A handler that looks for the API key before the email: what C16_Responses
\* rules out.
handlerKeyFirst ==
    /\ relay.pc = "called"
    /\ LET b == Destructure(relay.body)
       IN  IF relay.method # "POST" THEN Respond(405, [message |-> "Method not allowed"])
           ELSE IF Falsy(relay.apiKey)
                THEN Respond(500, [message |-> "RESEND_API_KEY is not configured"])
           ELSE IF Falsy(b.email) THEN Respond(400, [message |-> "Missing email"])
           ELSE relay' = [relay EXCEPT
                    !.pc = "fetching",
                    !.fetches = Append(@, [to |-> b.email, key |-> relay.apiKey])]
    /\ UNCHANGED appVars

\* handler(req, res), up to its await of fetch.
handler ==
    /\ relay.pc = "called"
    /\ LET b == Destructure(relay.body)
       IN  IF relay.method # "POST" THEN Respond(405, [message |-> "Method not allowed"])
           ELSE IF Falsy(b.email) THEN Respond(400, [message |-> "Missing email"])
           ELSE IF Falsy(relay.apiKey)
                THEN Respond(500, [message |-> "RESEND_API_KEY is not configured"])
           ELSE relay' = [relay EXCEPT
                    !.pc = "fetching",
                    !.fetches = Append(@,
                        [to |-> b.email,
                         subject |-> IF Falsy(b.subject)
                                     THEN <<"Squad Up notification">>
                                     ELSE b.subject,
                         text |-> IF Falsy(b.message) THEN <<>> ELSE b.message,
                         key |-> relay.apiKey])]
    /\ UNCHANGED appVars

\* fetch and response.json() resolve: res.status(200).json(data).
FetchReturns(data) ==
    /\ relay.pc = "fetching"
    /\ relay' = [relay EXCEPT !.pc = "done", !.answer = <<data>>,
                              !.responses = Append(@, [status |-> 200, body |-> data])]
    /\ UNCHANGED appVars

\* fetch or response.json() rejects: the catch block answers.
FetchThrows ==
    /\ relay.pc = "fetching"
    /\ relay' = [relay EXCEPT !.pc = "done", !.threw = TRUE,
                              !.responses = Append(@,
                                  [status |-> 500,
                                   body |-> [message |-> "Failed to send email"]])]
    /\ UNCHANGED appVars

----------------------------------------------------------------------------
(* The specification *)

\* MainApp after its first render and its effect: load() is called once and the
\* channel is subscribed; the backend holds no row yet.
InitApp ==
    /\ squadsTable = {}
    /\ membersTable = {}
    /\ nextSquadId = 1
    /\ nextMemberId = 1
    /\ notes = [squads |-> 0, members |-> 0]
    /\ pinOf = <<>>
    /\ channel = "subscribed"
    /\ squads = <<>>
    /\ filters = [query |-> <<>>, discipline |-> "All", onlyUpcoming |-> TRUE]
    /\ joinTarget = NoTarget
    /\ editTarget = NoTarget
    /\ toast = NoToast
    /\ visible = <<>>
    /\ now = Start
    /\ loads = <<NewLoad>>
    /\ writes = <<>>
    /\ faults = 0
    /\ issuedDeletes = {}
    /\ events = 0
    /\ toastTimer = NoTimer
    /\ instants = {<<squadsTable, membersTable>>}
    /\ lateCommit = FALSE

Init ==
    /\ InitApp
    /\ tab = "browse"
    /\ form = EmptyForm
    /\ posted = NoTarget
    /\ relay = NoRequest

\* The mounted application on a backend that answers every call.
Next ==
    \/ \E i \in DOMAIN loads : LoadReadSquads(i)
    \/ \E i \in DOMAIN loads : LoadReadMembers(i)
    \/ \E i \in DOMAIN loads : LoadCommit(i)
    \/ \E t \in {"squads", "members"} : Deliver(t)
    \/ \E i \in DOMAIN writes : Apply(i)
    \/ \E i \in DOMAIN writes : Complete(i)
    \/ ChangeQuery
    \/ ChangeDiscipline
    \/ ChangeOnlyUpcoming
    \/ ClickTab
    \/ SubmitPost
    \/ ClickJoin
    \/ CloseJoin
    \/ SubmitJoin
    \/ ClickDelete
    \/ ClickEdit
    \/ CloseEdit
    \/ SubmitEdit
    \/ CloseToast

Spec == Init /\ [][Next]_vars

\* The same, and MainApp may unmount.
NextTeardown == Next \/ Unmount

SpecTeardown == Init /\ [][NextTeardown]_vars

\* The mounted application on a backend whose calls may fail.
NextFaulty ==
    \/ Next
    \/ \E i \in DOMAIN loads : LoadReadSquadsFails(i)
    \/ \E i \in DOMAIN loads : LoadReadMembersFails(i)
    \/ \E i \in DOMAIN writes : ApplyFails(i)

SpecFaulty == Init /\ [][NextFaulty]_vars

\* Posting squads, with the milliseconds a status is shown followed.
NextToast ==
    \/ \E i \in DOMAIN loads : LoadReadSquads(i)
    \/ \E i \in DOMAIN loads : LoadReadMembers(i)
    \/ \E i \in DOMAIN loads : LoadCommit(i)
    \/ \E t \in {"squads", "members"} : Deliver(t)
    \/ \E i \in DOMAIN writes : Apply(i)
    \/ \E i \in DOMAIN writes : Complete(i)
    \/ ClickTab
    \/ SubmitPost
    \/ CloseToast
    \/ \E d \in TickMs : Tick(d)
    \/ ToastTimeout

SpecToast == Init /\ [][NextToast]_vars

\* The Post tab, with a form the user has filled in.
InitForm ==
    /\ InitApp
    /\ tab = "post"
    /\ form \in FormInputs
    /\ posted = NoTarget
    /\ relay = NoRequest

NextForm ==
    \/ ClearLeaderName
    \/ SubmitForm
    \/ \E i \in DOMAIN writes : Apply(i)
    \/ \E i \in DOMAIN writes : Complete(i)

SpecForm == InitForm /\ [][NextForm]_vars

\* A caller passes a squad to addSquad, and load() reads it back.
Messages == {Undefined, <<>>, <<"l">>}

DomainSquads ==
    {[DraftA EXCEPT !.title = t, !.message = m, !.capacity = c, !.date = d,
                    !.contact = [type |-> CONTACT_TYPES[k], value |-> <<"c">>]] :
        t \in {<<"b">>, <<"C", "l">>}, m \in Messages, c \in Capacities,
        d \in {1, 3}, k \in DOMAIN CONTACT_TYPES}

InitPosted ==
    /\ InitApp
    /\ tab = "post"
    /\ form = EmptyForm
    /\ posted \in DomainSquads
    /\ relay = NoRequest

\* onSubmit(posted)
PostSquad ==
    /\ UserEvent /\ tab = "post"
    /\ Len(writes) < MaxWrites
    /\ nextSquadId <= MaxSquads
    /\ addSquad(posted)

NextPosted ==
    \/ PostSquad
    \/ \E i \in DOMAIN writes : Apply(i)
    \/ \E i \in DOMAIN writes : Complete(i)
    \/ \E t \in {"squads", "members"} : Deliver(t)
    \/ \E i \in DOMAIN loads : LoadReadSquads(i)
    \/ \E i \in DOMAIN loads : LoadReadMembers(i)
    \/ \E i \in DOMAIN loads : LoadCommit(i)

SpecPosted == InitPosted /\ [][NextPosted]_vars

\* Posting and joining squads, with every instant of the backend recorded.
NextInstants ==
    \/ \E i \in DOMAIN loads : LoadReadSquads(i)
    \/ \E i \in DOMAIN loads : LoadReadMembers(i)
    \/ \E i \in DOMAIN loads : LoadCommit(i)
    \/ \E t \in {"squads", "members"} : Deliver(t)
    \/ \E i \in DOMAIN writes : ApplyAtInstant(i)
    \/ \E i \in DOMAIN writes : Complete(i)
    \/ ClickTab
    \/ SubmitPost
    \/ ClickJoin
    \/ SubmitJoin

SpecInstants == Init /\ [][NextInstants]_vars

\* The email relay, called once.
InitRelay ==
    /\ InitApp
    /\ tab = "browse"
    /\ form = EmptyForm
    /\ posted = NoTarget
    /\ relay \in Requests

NextRelay ==
    \/ handler
    \/ \E data \in ProviderJson : FetchReturns(data)
    \/ FetchThrows

SpecRelay == InitRelay /\ [][NextRelay]_vars

----------------------------------------------------------------------------
(* The claims *)

Ids == 1..MaxSquads

\* A delete request awaits the backend, or has reached it.
DeleteIssued(id) ==
    \E i \in DOMAIN writes : writes[i].op = "deleteSquad" /\ writes[i].arg.id = id

C1_Calls ==
    \A i \in DOMAIN visible, pin \in PinInputs :
        deleteSquad(visible[i].id, pin) =>
            IF pin = pinOf[visible[i].id]
            THEN writes' = Append(writes, Write("deleteSquad", [id |-> visible[i].id]))
            ELSE /\ writes' = writes
                 /\ toast' = Status("error", "PIN is incorrect")

C1_Issued ==
    /\ \A e \in issuedDeletes : e[2] = pinOf[e[1]]
    /\ \A id \in Ids : DeleteIssued(id) => <<id, pinOf[id]>> \in issuedDeletes

\* C1: deleteSquad(id, pin) on a displayed squad, with a pin that differs from the
\* PIN the squad row was stored with, sets the error status "PIN is incorrect" and
\* issues no delete request; with the equal pin it issues the delete by id.  In any
\* run, every delete request was issued by a deleteSquad call whose pin equalled
\* the PIN of that squad.
C1_PinGate == []C1_Issued /\ [][C1_Calls]_vars

\* A delete was issued with the right PIN after one was refused with a wrong PIN.
C1_Witness ==
    /\ toast = Status("error", "PIN is incorrect")
    /\ \E id \in Ids : DeleteIssued(id) /\ <<id, pinOf[id]>> \in issuedDeletes

\* C2, as claimed: for every list, id and pin, startEdit opens the edit flow exactly
\* when deleteSquad issues the delete, and sets the same status or none as
\* deleteSquad does, also when no squad of that id is in the list.
C2_SameCheck ==
    \A id \in Ids, pin \in PinInputs : startEditCheck(id, pin) = deleteSquadCheck(id, pin)

\* C2, amended: for a squad id that is in the list the two checks agree: both go on
\* exactly when the pin equals the squad's PIN and both set "PIN is incorrect"
\* otherwise.  For an id that is not in the list neither goes on, startEdit sets the
\* error status "Not found" and deleteSquad sets no status.
C2_SameCheckInList ==
    \A id \in Ids, pin \in PinInputs :
        IF \E i \in DOMAIN squads : squads[i].id = id
        THEN /\ startEditCheck(id, pin) = deleteSquadCheck(id, pin)
             /\ startEditCheck(id, pin).go <=> pin = pinOf[id]
             /\ ~startEditCheck(id, pin).go =>
                    startEditCheck(id, pin).toast = Status("error", "PIN is incorrect")
        ELSE /\ startEditCheck(id, pin) = [go |-> FALSE, toast |-> Status("error", "Not found")]
             /\ deleteSquadCheck(id, pin) = [go |-> FALSE, toast |-> NoToast]

\* startEdit has opened the edit flow of a squad whose delete was issued too, and a
\* squad id that is not in the list exists.
C2_Witness ==
    /\ editTarget # NoTarget
    /\ DeleteIssued(editTarget.id)
    /\ \E id \in Ids : find(id) = NoTarget

\* The join of the two tables of the backend, as a list holds it: one entry per squad
\* row, with the members of that squad's member rows.
MemberOfRow(m) ==
    [name |-> m.name, note |-> OrUndefined(m.note), joinedAt |-> ParseTime(m.joined_at)]

IsJoinOfBackend(list) ==
    /\ Len(list) = Cardinality(squadsTable)
    /\ \A r \in squadsTable :
           \E i \in DOMAIN list :
               /\ [f \in DOMAIN list[i] \ {"members"} |-> list[i][f]] = mapFromDB(r)
               /\ Len(list[i].members) = Cardinality(MembersOf(r.id))
               /\ Range(list[i].members) = {MemberOfRow(m) : m \in MembersOf(r.id)}

\* No write awaits the backend, no notification is undelivered, no load() is in flight.
Quiescent ==
    /\ writes = <<>>
    /\ notes = [squads |-> 0, members |-> 0]
    /\ loads = <<>>

\* C3: in a mounted client, once no mutation is under way, every change notification
\* has been delivered and every load() has completed, the in-memory list equals the
\* join of the squads and members tables of the backend.
C3_ConsistentWhenQuiescent == (Mounted /\ Quiescent) => IsJoinOfBackend(squads)

\* C4: while the channel is subscribed, the delivery of a change notification of the
\* squads table or of the members table starts exactly one load(): the loads in
\* flight are those before it and one new call.
C4_OneLoadPerNotification ==
    [][\A t \in {"squads", "members"} :
          (channel = "subscribed" /\ notes'[t] = notes[t] - 1) =>
              loads' = Append(loads, NewLoad)]_vars

\* Two load()s are in flight: a notification has started one.
C4_Witness == channel = "subscribed" /\ Len(loads) = 2

\* A load() that has read nothing yet.
Fresh(ls) == {i \in DOMAIN ls : ls[i].pc = "squads"}

\* C5: once the channel is removed no load() is started: in no step are there more
\* loads in flight, or more that have read nothing yet, than before the step,
\* whatever notifications are delivered.
C5_NoLoadAfterTeardown ==
    [][channel = "removed" =>
          /\ Len(loads') <= Len(loads)
          /\ Cardinality(Fresh(loads')) <= Cardinality(Fresh(loads))]_vars

\* The channel is removed, no load() is in flight and a change notification of the
\* squads table is still to be delivered.
C5_Witness ==
    /\ channel = "removed"
    /\ loads = <<>>
    /\ notes.squads > 0

\* C6: the in-memory list is written only by the completion of a load(): a step that
\* changes the list is the commit of a load() in flight, and every step of a handler
\* (its call, its backend write, its continuation) or of a filter change, which
\* changes the writes in flight, the backend or the view state, leaves the list as
\* it is.
C6_OnlyLoadWritesList ==
    [][/\ squads' # squads =>
              \E i \in DOMAIN loads :
                  /\ loads[i].pc = "commit"
                  /\ loads' = Remove(loads, i)
                  /\ squads' = loadResult(loads[i].rows, loads[i].members)
       /\ (writes' # writes \/ backendVars' # backendVars \/ viewVars' # viewVars)
              => squads' = squads]_vars

\* joinSquad has completed and its member row is in the backend, and the list still
\* shows every squad without members.
C6_Witness ==
    /\ toast = Status("success", "Joined this squad")
    /\ membersTable # {}
    /\ squads # <<>>
    /\ \A i \in DOMAIN squads : squads[i].members = <<>>

\* C7: the occupancy of a squad, 1 + the number of its members, never exceeds its
\* capacity, in the backend and in the in-memory list.
C7_OccupancyWithinCapacity ==
    /\ \A r \in squadsTable : 1 + Cardinality(MembersOf(r.id)) <= r.capacity
    /\ \A i \in DOMAIN squads : 1 + Len(squads[i].members) <= squads[i].capacity

C8_Cards ==
    \A i \in DOMAIN visible :
        LET squad == visible[i]
            card == SquadCard(squad)
        IN  /\ card.used = 1 + Len(squad.members)
            /\ card.left = IF squad.capacity > card.used
                           THEN squad.capacity - card.used ELSE 0
            /\ card.full <=> card.left = 0
            /\ card.joinDisabled <=> card.full

C8_Example ==
    SquadCard([capacity |-> 4, members |-> <<"x", "y", "z">>]) =
        [used |-> 4, left |-> 0, full |-> TRUE, joinDisabled |-> TRUE]

C8_JoinOpens ==
    (joinTarget' # joinTarget /\ joinTarget' # NoTarget) =>
        \E i \in DOMAIN visible :
            /\ joinTarget' = visible[i]
            /\ 1 + Len(visible[i].members) < visible[i].capacity

\* C8: for every displayed squad used = 1 + members.length, left = max(0, capacity -
\* used), full holds exactly when left = 0 and the join button is disabled exactly
\* when full holds; capacity 4 with 3 members gives used 4, left 0, full, disabled;
\* and the join modal opens only for a displayed squad that is not full.
C8_Occupancy == [](C8_Cards /\ C8_Example) /\ [][C8_JoinOpens]_vars

\* A displayed squad holds more than its capacity: left is 0, not negative.
C8_Witness ==
    \E i \in DOMAIN visible :
        /\ 1 + Len(visible[i].members) > visible[i].capacity
        /\ SquadCard(visible[i]).joinDisabled

C10_Dropped(s) == filters.onlyUpcoming /\ now - When(s.date, s.time) > DayMs

C10_Example ==
    LET s == DraftA
        on == [query |-> <<>>, discipline |-> "All", onlyUpcoming |-> TRUE]
    IN  /\ ~Keep(s, on, When(s.date, s.time) + DayMs + 1)
        /\ Keep(s, on, When(s.date, s.time) + DayMs)
        /\ Keep(s, on, When(s.date, s.time) - 1)
        /\ Keep(s, [on EXCEPT !.onlyUpcoming = FALSE], When(s.date, s.time) + 2 * DayMs)

\* C10: a squad of the list whose instant is more than 86,400,000 ms before the now
\* of the evaluation is not displayed when onlyUpcoming is set; a squad that is not
\* so (its instant 86,400,000 ms before now or later, or onlyUpcoming unset) is
\* displayed when no other filter is set; 86,400,001 ms in the past is dropped,
\* 86,400,000 ms is kept.
C10_OnlyUpcoming ==
    /\ C10_Example
    /\ \A i \in DOMAIN squads :
           /\ C10_Dropped(squads[i]) => squads[i] \notin Range(visible)
           /\ (~C10_Dropped(squads[i]) /\ filters.discipline = "All" /\ filters.query = <<>>)
                  => squads[i] \in Range(visible)

\* With onlyUpcoming set, a squad of the list is 86,400,001 ms in the past and is not
\* displayed.
C10_Witness ==
    /\ filters.onlyUpcoming
    /\ \E i \in DOMAIN squads :
           /\ now - When(squads[i].date, squads[i].time) = DayMs + 1
           /\ squads[i] \notin Range(visible)

C11_Lower(c) == IF c \in {"A", "B", "C", "L"} THEN LowerOf[c] ELSE c

\* The text q occurs in the text hay, letters compared without their case.
C11_Occurs(q, hay) ==
    \E at \in 1..(Len(hay) + 1) :
        \A k \in 1..Len(q) :
            /\ at + k - 1 <= Len(hay)
            /\ C11_Lower(hay[at + k - 1]) = C11_Lower(q[k])

C11_Passes(s) ==
    /\ ~C10_Dropped(s)
    /\ filters.discipline = "All" \/ s.discipline = filters.discipline
    /\ \/ filters.query = <<>>
       \/ C11_Occurs(filters.query,
              s.title \o <<" ">> \o s.location \o <<" ">> \o
              (IF s.message \in {Undefined, Null} THEN <<>> ELSE s.message) \o
              <<" ">> \o s.leaderName)

C11_Example ==
    LET off == [query |-> <<>>, discipline |-> "All", onlyUpcoming |-> FALSE]
    IN  /\ Keep(DraftA, [off EXCEPT !.query = <<"c", "L">>], Start)
        /\ Keep(DraftA, [off EXCEPT !.query = <<"l", " ", "b">>], Start)
        /\ ~Keep(DraftA, [off EXCEPT !.query = <<"z">>], Start)
        /\ ~Keep(DraftA, [off EXCEPT !.discipline = "Skeet"], Start)
        /\ Keep(DraftB, [off EXCEPT !.discipline = "Skeet"], Start)

\* C11: the displayed list holds exactly the squads of the in-memory list that pass
\* every filter that is set, each once: the date filter of onlyUpcoming, the
\* discipline equal to the filter's unless that is "All", and a non-empty query
\* occurring, without regard to case, in "title location message leaderName"; with
\* no filter set it holds every squad of the list.
C11_Filters ==
    /\ C11_Example
    /\ \A i \in DOMAIN squads : squads[i] \in Range(visible) <=> C11_Passes(squads[i])
    /\ Range(visible) \subseteq Range(squads)
    /\ Len(visible) = Cardinality({i \in DOMAIN squads : C11_Passes(squads[i])})
    /\ (filters.query = <<>> /\ filters.discipline = "All" /\ ~filters.onlyUpcoming)
           => /\ Len(visible) = Len(squads)
              /\ Range(visible) = Range(squads)

\* A query is set, and it keeps one squad of the list and drops another.
C11_Witness ==
    /\ filters.query # <<>>
    /\ visible # <<>>
    /\ \E i \in DOMAIN squads : squads[i] \notin Range(visible)

\* C12: the displayed list and the in-memory list are each in non-decreasing order
\* of the instant of the squads' date and time.
C12_Sorted ==
    /\ \A i, j \in DOMAIN visible :
           i < j => When(visible[i].date, visible[i].time)
                        <= When(visible[j].date, visible[j].time)
    /\ \A i, j \in DOMAIN squads :
           i < j => When(squads[i].date, squads[i].time)
                        <= When(squads[j].date, squads[j].time)

\* Two squads of different instants are displayed.
C12_Witness ==
    /\ Len(visible) = 2
    /\ When(visible[1].date, visible[1].time) < When(visible[2].date, visible[2].time)

C13_Updates == {i \in DOMAIN writes : writes[i].op = "updateSquad"}

C13_Mutable ==
    {"title", "leader_name", "date", "time", "location", "discipline", "capacity",
     "message", "contact_type", "contact_value"}

\* C13, as claimed: the update of saveEdit sets every mutable column and not the id,
\* the members, the creation time or the leader PIN column.
C13_NoPinColumn ==
    \A i \in C13_Updates : DOMAIN writes[i].arg.set = C13_Mutable

C13_Columns ==
    \A i \in C13_Updates :
        /\ DOMAIN writes[i].arg.set = C13_Mutable \cup {"leader_pin"}
        /\ writes[i].arg.set.leader_pin = pinOf[writes[i].arg.id]

C13_OneUpdate ==
    (editTarget # NoTarget /\ Len(writes') > Len(writes)) =>
        /\ writes' = Append(writes, writes'[Len(writes')])
        /\ writes'[Len(writes')].op = "updateSquad" =>
               /\ writes'[Len(writes')].arg.id = editTarget.id
               /\ writes'[Len(writes')].arg.set.title = editTarget.title
               /\ writes'[Len(writes')].arg.set.capacity \in Capacities

\* C13, amended: saveEdit issues one update by id that sets every mutable column and
\* the leader_pin column too, to the PIN the squad already has; it sets neither id
\* nor created_at, and writes no member row.
C13_SaveEditColumns == []C13_Columns /\ [][C13_OneUpdate]_vars

\* An update that changes the capacity of its squad awaits the backend.
C13_Witness ==
    \E i \in C13_Updates :
        \E r \in squadsTable :
            /\ r.id = writes[i].arg.id
            /\ r.capacity # writes[i].arg.set.capacity

C14_SuccessText ==
    [insertSquad |-> "Squad posted", insertMember |-> "Joined this squad",
     deleteSquad |-> "Squad deleted", updateSquad |-> "Squad updated"]

\* When the handler of a write in flight runs its continuation:
C14_Continues ==
    Len(writes') < Len(writes) =>
        \E i \in DOMAIN writes :
            /\ writes[i].done
            /\ writes' = Remove(writes, i)
            /\ toast' = [kind |-> "success", text |-> C14_SuccessText[writes[i].op]]
            /\ writes[i].op = "insertSquad" => tab' = "browse"

C14_Errors ==
    toast.kind = "error" => toast.text \in {"PIN is incorrect", "Not found"}

\* C14: the handler of every backend write (addSquad, joinSquad, saveEdit, and
\* deleteSquad with the right PIN) sets its success status when its write is
\* answered, whether the write changed the backend or failed, and addSquad sets the
\* tab to "browse"; the only error statuses ever set are those of the PIN checks.
C14_SuccessWhatever == []C14_Errors /\ [][C14_Continues]_vars

\* "Squad posted" is shown, the tab is "browse", and no squad row was ever inserted.
C14_Witness ==
    /\ toast = [kind |-> "success", text |-> "Squad posted"]
    /\ tab = "browse"
    /\ nextSquadId = 1
    /\ writes = <<>>

\* C15: a status that is shown is cleared 3200 ms after it was set, whatever
\* renders, load() completions or further statuses happen meanwhile: no status is
\* shown that was set more than 3200 ms ago.
C15_ClearedAfterToastMs == toast # NoToast => toastTimer.shown <= ToastMs

C16_NoEmail(body) == "email" \notin DOMAIN body \/ body.email \in {Undefined, <<>>}
C16_NoKey == relay.apiKey \in {Undefined, <<>>}

\* The status the order of C16 gives the request.
C16_Status ==
    IF relay.method # "POST" THEN 405
    ELSE IF C16_NoEmail(relay.body) THEN 400
    ELSE IF C16_NoKey THEN 500
    ELSE IF relay.threw THEN 500
    ELSE 200

\* C16: the email relay sends one response per request and no more, with status
\* 405 when the method is not POST; else 400 when the body has no email; else 500
\* when the API key is not configured; else 500 when the call of the provider
\* throws; otherwise 200 with the JSON the provider answered.  It calls the
\* provider in none of the first three cases, and once otherwise.
C16_Responses ==
    /\ Len(relay.responses) = IF relay.pc = "done" THEN 1 ELSE 0
    /\ relay.pc = "done" =>
           /\ relay.responses[1].status = C16_Status
           /\ C16_Status = 200 => <<relay.responses[1].body>> = relay.answer
    /\ Len(relay.fetches) =
           IF relay.method # "POST" \/ C16_NoEmail(relay.body) \/ C16_NoKey
              \/ relay.pc \in {"idle", "called"}
           THEN 0 ELSE 1

C16_Witness ==
    /\ relay.pc = "done"
    /\ relay.responses = <<[status |-> 200, body |-> [id |-> "e1"]]>>
    /\ Len(relay.fetches) = 1

\* The keys of the fields of a form that are empty or malformed.
C17_Bad(f) ==
    UNION {IF trim(f.title) = <<>> THEN {"title"} ELSE {},
           IF trim(f.leaderName) = <<>> THEN {"leaderName"} ELSE {},
           IF f.date = <<>> THEN {"date"} ELSE {},
           IF f.time = <<>> THEN {"time"} ELSE {},
           IF trim(f.location) = <<>> THEN {"location"} ELSE {},
           IF f.capacity < 1 THEN {"capacity"} ELSE {},
           IF \/ trim(f.contactValue) = <<>>
              \/ f.contactType = "Email" /\ ~IsEmail(trim(f.contactValue))
              \/ f.contactType \in {"Phone", "Text"} /\ ~IsPhone(trim(f.contactValue))
           THEN {"contact"} ELSE {},
           IF LET p == trim(f.leaderPin)
              IN  Len(p) = PinLength /\ \A k \in DOMAIN p : p[k] \in Digits
           THEN {} ELSE {"leaderPin"}}

C17_Submit ==
    SubmitForm =>
        /\ DOMAIN form'.errors = C17_Bad(form)
        /\ IF C17_Bad(form) = {}
           THEN /\ Len(writes') = Len(writes) + 1
                /\ writes'[Len(writes')].op = "insertSquad"
                /\ writes'[Len(writes')].arg.title = trim(form.title)
           ELSE writes' = writes

\* C17: for every form, validate() rejects, and submit issues no insert, exactly
\* when a required field is empty or malformed (the texts taken without the
\* whitespace around them): title, leader name, date, time, location or contact
\* value empty, capacity below 1, contact value not an email for type Email or not
\* a phone number for types Phone and Text, leader PIN not six digits.  The errors
\* are keyed by exactly the fields that fail.
C17_Validates == [][C17_Submit]_vars

C17_Witness ==
    /\ DOMAIN form.errors = {"title", "contact", "leaderPin"}
    /\ form.contactType = "Email"
    /\ form.leaderPin = <<"1", "2", "a", "4", "5", "6">>
    /\ writes = <<>>

C18_Same(s, d) ==
    /\ s.title = d.title
    /\ s.leaderName = d.leaderName
    /\ s.date = d.date
    /\ s.time = d.time
    /\ s.location = d.location
    /\ s.discipline = d.discipline
    /\ s.capacity = d.capacity
    /\ s.message = d.message
    /\ s.contact = d.contact

\* C18: a squad passed to addSquad, stored as a row and read back by load() through
\* mapFromDB has the field values it was passed with (id, leaderPin and timestamps
\* aside); an undefined message is stored as null and read back as undefined.
C18_RoundTrip ==
    /\ \A k \in DOMAIN squads : C18_Same(squads[k], posted)
    /\ \A r \in squadsTable : r.message = OrNull(posted.message)

C18_Witness ==
    /\ posted.message = Undefined
    /\ \E r \in squadsTable : r.message = Null
    /\ squads # <<>> /\ squads[1].message = Undefined

\* The list is the join of the tables st and mt.
C19_IsJoinOf(list, st, mt) ==
    /\ Len(list) = Cardinality(st)
    /\ \A r \in st :
           \E i \in DOMAIN list :
               LET ms == {m \in mt : m.squad_id = r.id}
               IN  /\ [f \in DOMAIN list[i] \ {"members"} |-> list[i][f]] = mapFromDB(r)
                   /\ Len(list[i].members) = Cardinality(ms)
                   /\ Range(list[i].members) = {MemberOfRow(m) : m \in ms}

\* C19: the list load() commits is the join of the squads table and the members
\* table as they stood at one instant of the backend, whatever writes come between
\* the two reads of the load(): the in-memory list is always the join at one of the
\* instants the backend has been through.
C19_JoinAtOneInstant == \E h \in instants : C19_IsJoinOf(squads, h[1], h[2])

\* load() call i, one of whose selects returned no data, commits.
C20_FailedCommit(i) ==
    /\ loads[i].pc = "commit"
    /\ loads[i].rows.isNull \/ loads[i].members.isNull
    /\ loads' = Remove(loads, i)

\* C20: a load() whose squad read or member read fails does not replace the
\* in-memory list, which stays the result of the last load() that succeeded.
C20_FailedLoadKeepsList ==
    [][\A i \in DOMAIN loads : C20_FailedCommit(i) => squads' = squads]_vars

\* The commit of load() call i.
C21_Commit(i) == loads[i].pc = "commit" /\ loads' = Remove(loads, i)

\* C21: of the load() calls in flight, whichever completes sets the in-memory list
\* to its own result, wherever it stands in the order the calls were started, so the
\* last to complete determines the list, also when it read the backend before a
\* load() that completed earlier; the commit leaves the backend as it is.
C21_LastToCompleteWins ==
    [][\A i \in DOMAIN loads :
          C21_Commit(i) =>
              /\ squads' = loadResult(loads[i].rows, loads[i].members)
              /\ backendVars' = backendVars]_vars

\* Nothing is in flight and the list is empty while the backend holds a squad: the
\* load() that read the empty table completed after the load() that read the squad.
C21_Witness ==
    /\ Mounted /\ Quiescent
    /\ squads = <<>>
    /\ squadsTable # {}

\* C23: a load() in flight when MainApp unmounts still completes and commits: no
\* flag is tested before setSquads, so after the channel is removed the commit of
\* a load() writes its result to the in-memory list as it does before.
C23_CommitsAfterTeardown ==
    [][\A i \in DOMAIN loads :
          (channel = "removed" /\ loads[i].pc = "commit" /\ Len(loads') < Len(loads)) =>
              /\ loads' = Remove(loads, i) =>
                     squads' = loadResult(loads[i].rows, loads[i].members)
              /\ lateCommit']_vars

\* The list was written after the channel was removed, and holds a squad.
C23_Witness ==
    /\ channel = "removed"
    /\ lateCommit
    /\ squads # <<>>

\* The rows a select returned: none when its data is null.
C22_Fetched(result) == IF result.isNull THEN <<>> ELSE result.data

\* The entry of a squad row: its fields through mapFromDB, with the member rows of
\* its id in the order they arrived.
C22_Entry(r, ms) ==
    LET own == SelectSeq(ms, LAMBDA m : m.squad_id = r.id)
    IN  mapFromDB(r) @@ [members |-> [k \in DOMAIN own |-> MemberOfRow(own[k])]]

C22_Replaces(i) ==
    LET rs == C22_Fetched(loads[i].rows)
        ms == C22_Fetched(loads[i].members)
    IN  /\ Len(squads') = Len(rs)
        /\ \A k \in DOMAIN rs : \E j \in DOMAIN squads' : squads'[j] = C22_Entry(rs[k], ms)
        /\ \A j \in DOMAIN squads' : \E k \in DOMAIN rs : squads'[j] = C22_Entry(rs[k], ms)

\* C22: load() is a full replace: when it completes, the in-memory list has one
\* entry per squad row fetched and no other, each with exactly the member rows
\* fetched whose squad_id is its id, in the order they arrived (the empty sequence
\* when there is none); no entry of the list before it is kept.
C22_FullReplace == [][\A i \in DOMAIN loads : LoadCommit(i) => C22_Replaces(i)]_vars

\* The squad displayed was deleted and the load() that followed has committed: the
\* list had an entry and has none.
C22_Witness ==
    /\ toast = Status("success", "Squad deleted")
    /\ squadsTable = {}
    /\ squads = <<>>
    /\ loads = <<>>

\* C24: the leader PIN stored with a squad never changes: whatever startEdit,
\* saveEdit, joinSquad, deleteSquad and load() calls are made and however they
\* interleave, the leader_pin of every squad row is the PIN the row was inserted
\* with.
C24_PinNeverChanges == \A r \in squadsTable : r.leader_pin = pinOf[r.id]

\* The squad posted with DraftA has been edited: its capacity is another, its PIN
\* is the same.
C24_Witness ==
    \E r \in squadsTable :
        /\ r.title = DraftA.title
        /\ r.capacity # DraftA.capacity
        /\ r.leader_pin = DraftA.leaderPin

\* The member rows that load() call i fetched for the squad id.
C25_RowsOf(i, id) ==
    IF loads[i].members.isNull THEN {}
    ELSE {m \in Range(loads[i].members.data) : m.squad_id = id}

C25_Grouped(i) ==
    /\ \A j, k \in DOMAIN squads' : j # k => squads'[j].id # squads'[k].id
    /\ \A k \in DOMAIN squads' :
           /\ Len(squads'[k].members) = Cardinality(C25_RowsOf(i, squads'[k].id))
           /\ Range(squads'[k].members) =
                  {MemberOfRow(m) : m \in C25_RowsOf(i, squads'[k].id)}

\* C25: in every list load() commits, the squad ids are pairwise distinct and the
\* members displayed under a squad are the member rows fetched whose squad_id is
\* that squad's id, each once: a member is under one squad at most, and a member
\* of a squad that is not in the list is not displayed.
C25_MembersUnderTheirSquad ==
    [][\A i \in DOMAIN loads : LoadCommit(i) => C25_Grouped(i)]_vars

\* Two squads are displayed, the first with a member and the second with none.
C25_Witness ==
    /\ loads = <<>>
    /\ Len(squads) = 2
    /\ squads[1].members # <<>>
    /\ squads[2].members = <<>>

====
